---- MODULE Spec2Model ----
(***************************************************************************)
(* OptiTask: the task registry of src/test.py (the module-level list       *)
(* `tasks` and the counter `task_counter`), its three mutating endpoints   *)
(* (create-task, complete-task, delete-task) and the recompute             *)
(* generate_dependencies_and_schedule that create and delete run.          *)
(*                                                                         *)
(* Dates are day numbers (the text "YYYY-MM-DD" of day d is d), a datetime *)
(* is a number of minutes since 00:00 of day 0, and the text               *)
(* "%Y-%m-%d %H:%M" of a datetime is the triple <<day, hour, minute>>.     *)
(* The absent timestamp None is the empty tuple.                           *)
(* One call of generate_dependencies_and_schedule reads the clock once.    *)
(*                                                                         *)
(* Spec handles one request at a time.  SpecConc lets the requests that    *)
(* FastAPI runs in its thread pool (the endpoints declared with `def`)     *)
(* interleave: in_flight is where each worker stands in delete_task.       *)
(***************************************************************************)
EXTENDS Integers, Sequences, FiniteSets

VARIABLES tasks, task_counter, today, response, cyclic_printed, topo_order,
          in_flight

vars ==
    <<tasks, task_counter, today, response, cyclic_printed, topo_order, in_flight>>

\* ---------------------------------------------------------------- bounds
\* task_counter is capped (ids 1..MaxCounter) and so is the calendar
MaxCounter == 3
MaxToday == 1

\* ------------------------------------------------------- program constants
WorkStartHour == 9
WorkEndHour == 17
DefaultDuration == 60
MinutesPerDay == 1440
MinutesPerHour == 60

None == <<>>

\* the thread-pool workers that serve the `def` endpoints
Workers == {"w1", "w2"}

\* ------------------------------------------------------------- the inputs
\* The text posted to /create-task, by what parse_task reads in it: the words
\* before on/at/for (name), the date it names if any, whether it names a time,
\* and its duration phrase "<value> <unit>" (NoPhrase: it has none).
NoPhrase == [value |-> 0, unit |-> "none"]

Phrase(value, unit) == [value |-> value, unit |-> unit]

Text(name, date, phrase) ==
    [name |-> name, has_date |-> TRUE, date |-> date, has_time |-> TRUE,
     phrase |-> phrase]

Texts ==
    { Text("workflow", 0, NoPhrase),
      Text("alarm", 0, Phrase(30, "min")),
      Text("art", 0, Phrase(500, "minutes")),
      Text("workflow", 1, NoPhrase),
      Text("misc", 2, Phrase(0, "mins")),
      [Text("misc", 2, NoPhrase) EXCEPT !.has_date = FALSE],
      [Text("misc", 2, NoPhrase) EXCEPT !.has_time = FALSE] }

\* ------------------------------------------------------------ conversions
\* datetime.strftime("%Y-%m-%d %H:%M") of a datetime with whole minutes
strftime(dt) ==
    <<dt \div MinutesPerDay, (dt % MinutesPerDay) \div MinutesPerHour,
      dt % MinutesPerHour>>

\* the datetime a "%Y-%m-%d %H:%M" text stands for
strptime(s) == s[1] * MinutesPerDay + s[2] * MinutesPerHour + s[3]

\* datetime.combine(day, HH:00)
combine(day, hour) == day * MinutesPerDay + hour * MinutesPerHour

\* datetime.replace(hour=h, minute=0)
replace(dt, hour) == (dt \div MinutesPerDay) * MinutesPerDay + hour * MinutesPerHour

\* ------------------------------------------------------------ parse_task
classify_task(name) ==
    CASE name = "workflow" -> "professional"
      [] name \in {"alarm", "art"} -> "personal"
      [] OTHER -> "unknown"

\* group(2) of (hr|hour|hrs|hours|minute|minutes|min|mins): the first
\* alternative that matches at the unit's position
matched_unit(unit) ==
    CASE unit \in {"hr", "hrs"} -> "hr"
      [] unit \in {"hour", "hours"} -> "hour"
      [] unit \in {"minute", "minutes"} -> "minute"
      [] OTHER -> "min"

parse_duration(phrase) ==
    IF phrase.unit = "none" THEN DefaultDuration
    ELSE IF matched_unit(phrase.unit) = "hour" THEN phrase.value * MinutesPerHour
    ELSE phrase.value

priority_of(name) ==
    LET task_type == classify_task(name)
    IN  IF task_type = "professional" THEN 1
        ELSE IF task_type = "personal" THEN 2 ELSE 3

Task(t_id, t_name, t_priority, t_deadline, t_duration, t_status) ==
    [t_id |-> t_id, t_name |-> t_name, t_priority |-> t_priority,
     t_deadline |-> t_deadline, t_duration |-> t_duration,
     t_status |-> t_status, t_dependencies |-> <<>>,
     t_start_time |-> None, t_end_time |-> None]

parse_error(text) ==
    IF ~text.has_date THEN "missing_date"
    ELSE IF ~text.has_time THEN "missing_time"
    ELSE IF text.date < today THEN "invalid_date"
    ELSE "none"

parse_task(text) ==
    Task(task_counter, text.name, priority_of(text.name), text.date,
         parse_duration(text.phrase), "pending")

\* ------------------------------------- generate_dependencies_and_schedule
Range(seq) == { seq[i] : i \in 1..Len(seq) }

Ids(seq) == [i \in 1..Len(seq) |-> seq[i].t_id]

\* the task of the list `ts` with id `id` (ids are looked up, never indexed)
TaskOf(ts, id) == ts[CHOOSE i \in 1..Len(ts) : ts[i].t_id = id]

\* grouped[dt]: the tasks of one deadline, in registry order
grouped(ts, deadline) == SelectSeq(ts, LAMBDA t : t.t_deadline = deadline)

RECURSIVE sorted_set(_)
sorted_set(S) ==
    IF S = {} THEN <<>>
    ELSE LET m == CHOOSE x \in S : \A y \in S : x <= y
         IN  <<m>> \o sorted_set(S \ {m})

\* sorted(grouped.keys())
sorted_deadlines(ts) == sorted_set({ ts[i].t_deadline : i \in 1..Len(ts) })

\* the key's fields swapped: (t.t_id, t.t_priority)
key_le_id_first(a, b) == a.t_id <= b.t_id

\* the sort key (t.t_priority, t.t_id), compared as Python compares tuples
key_le(a, b) ==
    \/ a.t_priority < b.t_priority
    \/ a.t_priority = b.t_priority /\ a.t_id <= b.t_id

\* sorted(list, key=...): stable
RECURSIVE sorted_by_key(_)
sorted_by_key(seq) ==
    IF seq = <<>> THEN <<>>
    ELSE LET n == Len(seq)
             front == sorted_by_key(SubSeq(seq, 1, n - 1))
             x == seq[n]
             k == Cardinality({ i \in 1..Len(front) : key_le(front[i], x) })
         IN  SubSeq(front, 1, k) \o <<x>> \o SubSeq(front, k + 1, Len(front))

\* the pairs <<a[i], b[j]>> in the order of `for i: for j:`
nested_pairs(a, b) ==
    [k \in 1..(Len(a) * Len(b)) |->
        <<a[((k - 1) \div Len(b)) + 1], b[((k - 1) % Len(b)) + 1]>>]

\* the inner loop started at x instead of x + 1: a task also follows itself
serial_edges_from_x(task_list) ==
    LET pos == [i \in 1..Len(task_list) |-> i]
        xy == SelectSeq(nested_pairs(pos, pos), LAMBDA p : p[1] <= p[2])
    IN  [k \in 1..Len(xy) |->
            <<task_list[xy[k][1]].t_id, task_list[xy[k][2]].t_id>>]

\* for x in range(len): for y in range(x+1, len): the edges x -> y
serial_edges(task_list) ==
    LET pos == [i \in 1..Len(task_list) |-> i]
        xy == SelectSeq(nested_pairs(pos, pos), LAMBDA p : p[1] < p[2])
    IN  [k \in 1..Len(xy) |->
            <<task_list[xy[k][1]].t_id, task_list[xy[k][2]].t_id>>]

\* src and tgt swapped in the append: the earlier day depends on the later
cross_edges_swapped(task_list, next_tasks) ==
    nested_pairs(Ids(next_tasks), Ids(task_list))

\* the outer loop is missing: only the first task of the day is a source
cross_edges_first_source(task_list, next_tasks) ==
    nested_pairs(SubSeq(Ids(task_list), 1, 1), Ids(next_tasks))

\* for src in task_list: for tgt in next_tasks: the edges src -> tgt
cross_edges(task_list, next_tasks) ==
    nested_pairs(Ids(task_list), Ids(next_tasks))

\* dependencies.setdefault(tgt, []).append(src), for the edges in order
RECURSIVE append_all(_, _)
append_all(deps, edges) ==
    IF edges = <<>> THEN deps
    ELSE LET src == Head(edges)[1]
             tgt == Head(edges)[2]
         IN  append_all([deps EXCEPT ![tgt] = Append(@, src)], Tail(edges))

\* the loop over enumerate(sorted_deadlines), from index i on
RECURSIVE build_dependencies(_, _, _)
build_dependencies(ts, i, deps) ==
    LET sd == sorted_deadlines(ts)
    IN  IF i > Len(sd) THEN deps
        ELSE LET task_list == sorted_by_key(grouped(ts, sd[i]))
                 serial == append_all(deps, serial_edges(task_list))
                 both ==
                     IF i + 1 <= Len(sd)
                     THEN append_all(serial,
                                     cross_edges(task_list, grouped(ts, sd[i + 1])))
                     ELSE serial
             IN  build_dependencies(ts, i + 1, both)

\* the new list is added to the task's old one instead of replacing it
assign_dependencies_extend(ts) ==
    LET deps == build_dependencies(ts, 1, [id \in Range(Ids(ts)) |-> <<>>])
    IN  [i \in 1..Len(ts) |->
            [ts[i] EXCEPT !.t_dependencies = @ \o deps[ts[i].t_id]]]

\* task.t_dependencies = dependencies.get(task.t_id, [])
assign_dependencies(ts) ==
    LET deps == build_dependencies(ts, 1, [id \in Range(Ids(ts)) |-> <<>>])
    IN  [i \in 1..Len(ts) |-> [ts[i] EXCEPT !.t_dependencies = deps[ts[i].t_id]]]

\* ----------------------------------------------- the graph G (nx.DiGraph)
RECURSIVE flat_nodes(_)
flat_nodes(ts) ==
    IF ts = <<>> THEN <<>>
    ELSE <<Head(ts).t_id>> \o Head(ts).t_dependencies \o flat_nodes(Tail(ts))

RECURSIVE first_occurrences(_, _)
first_occurrences(seq, seen) ==
    IF seq = <<>> THEN <<>>
    ELSE IF Head(seq) \in seen THEN first_occurrences(Tail(seq), seen)
    ELSE <<Head(seq)>> \o first_occurrences(Tail(seq), seen \cup {Head(seq)})

\* G's nodes in insertion order: add_node(task.t_id), then add_edge(dep, task.t_id)
graph_nodes(ts) == first_occurrences(flat_nodes(ts), {})

\* the predecessors of v in G: an edge is in a DiGraph once
predecessors(ts, v) ==
    IF v \in Range(Ids(ts)) THEN Range(TaskOf(ts, v).t_dependencies) ELSE {}

\* G.neighbors(u): the successors of u, in the order their edges were added
neighbors(ts, u) == SelectSeq(Ids(ts), LAMBDA v : u \in predecessors(ts, v))

\* nx.topological_generations: the children of one node
RECURSIVE visit_children(_, _, _)
visit_children(children, indegree_map, zero_indegree) ==
    IF children = <<>>
    THEN [indegree_map |-> indegree_map, zero_indegree |-> zero_indegree]
    ELSE LET child == Head(children)
             d == indegree_map[child] - 1
         IN  visit_children(Tail(children),
                            [indegree_map EXCEPT ![child] = d],
                            IF d = 0 THEN Append(zero_indegree, child)
                            ELSE zero_indegree)

\* nx.topological_generations: the nodes of one generation
RECURSIVE visit_generation(_, _, _, _)
visit_generation(ts, this_generation, indegree_map, zero_indegree) ==
    IF this_generation = <<>>
    THEN [indegree_map |-> indegree_map, zero_indegree |-> zero_indegree]
    ELSE LET r == visit_children(neighbors(ts, Head(this_generation)),
                                 indegree_map, zero_indegree)
         IN  visit_generation(ts, Tail(this_generation),
                              r.indegree_map, r.zero_indegree)

\* nx.topological_generations, flattened by nx.topological_sort; feasible is
\* FALSE where networkx raises NetworkXUnfeasible (indegree_map not emptied)
RECURSIVE generations(_, _, _, _)
generations(ts, zero_indegree, indegree_map, order) ==
    IF zero_indegree = <<>>
    THEN [feasible |-> \A v \in DOMAIN indegree_map : indegree_map[v] = 0,
          order |-> order]
    ELSE LET r == visit_generation(ts, zero_indegree, indegree_map, <<>>)
         IN  generations(ts, r.zero_indegree, r.indegree_map,
                         order \o zero_indegree)

\* a traversal that forgets the in-degrees: the nodes as G lists them
topological_sort_unordered(ts) ==
    [feasible |-> TRUE, order |-> graph_nodes(ts)]

topological_sort(ts) ==
    LET nodes == graph_nodes(ts)
        indegree == [v \in Range(nodes) |-> Cardinality(predecessors(ts, v))]
    IN  generations(ts, SelectSeq(nodes, LAMBDA v : indegree[v] = 0),
                    indegree, <<>>)

\* ------------------------------------------------------ the scheduling loop
\* the day is advanced without the replace(hour=9, minute=0)
roll_over_same_hour(current_time, duration, work_end) ==
    IF current_time + duration > work_end
    THEN current_time + MinutesPerDay
    ELSE current_time

\* if current_time + duration > work_end: current_time = next day's 09:00
roll_over(current_time, duration, work_end) ==
    IF current_time + duration > work_end
    THEN replace(current_time, WorkStartHour) + MinutesPerDay
    ELSE current_time

\* current_time is not advanced past the task that was placed
RECURSIVE schedule_loop_cursor_kept(_, _, _, _)
schedule_loop_cursor_kept(ts, order, current_time, work_end) ==
    IF order = <<>> THEN ts
    ELSE LET task_id == Head(order)
             duration == TaskOf(ts, task_id).t_duration
             start == roll_over(current_time, duration, work_end)
             end == start + duration
             placed ==
                 [i \in 1..Len(ts) |->
                     IF ts[i].t_id = task_id
                     THEN [ts[i] EXCEPT !.t_start_time = strftime(start),
                                        !.t_end_time = strftime(end)]
                     ELSE ts[i]]
         IN  schedule_loop_cursor_kept(placed, Tail(order), start, work_end)

\* for task_id in topo_order: set the task's timestamps, advance current_time
RECURSIVE schedule_loop(_, _, _, _)
schedule_loop(ts, order, current_time, work_end) ==
    IF order = <<>> THEN ts
    ELSE LET task_id == Head(order)
             duration == TaskOf(ts, task_id).t_duration
             start == roll_over(current_time, duration, work_end)
             end == start + duration
             placed ==
                 [i \in 1..Len(ts) |->
                     IF ts[i].t_id = task_id
                     THEN [ts[i] EXCEPT !.t_start_time = strftime(start),
                                        !.t_end_time = strftime(end)]
                     ELSE ts[i]]
         IN  schedule_loop(placed, Tail(order), end, work_end)

\* generate_dependencies_and_schedule() on the task list ts, on calendar day
\* `day`: the new task list, whether "Cyclic dependencies detected!" was
\* printed, and the topological order that was scheduled
generate_dependencies_and_schedule(ts, day) ==
    LET with_deps == assign_dependencies(ts)
        topo == topological_sort(with_deps)
        work_start == combine(day, WorkStartHour)
        work_end == combine(day, WorkEndHour)
    IN  IF ~topo.feasible
        THEN [tasks |-> with_deps, cyclic |-> TRUE, topo_order |-> <<>>]
        ELSE [tasks |-> schedule_loop(with_deps, topo.order, work_start, work_end),
              cyclic |-> FALSE, topo_order |-> topo.order]

\* --------------------------------------------------------------- the state
Init ==
    /\ tasks = <<>>
    /\ task_counter = 1
    /\ today = 0
    /\ response = "none"
    /\ cyclic_printed = FALSE
    /\ topo_order = <<>>
    /\ in_flight = [w \in Workers |-> "idle"]

\* the call of generate_dependencies_and_schedule is missing
RecomputeSkipped(ts) ==
    /\ tasks' = ts
    /\ UNCHANGED <<cyclic_printed, topo_order>>

\* the caller's view of one run of generate_dependencies_and_schedule
Recompute(ts) ==
    LET r == generate_dependencies_and_schedule(ts, today)
    IN  /\ tasks' = r.tasks
        /\ cyclic_printed' = (cyclic_printed \/ r.cyclic)
        /\ topo_order' = r.topo_order

\* the ids are compared instead of the names
is_duplicate_by_id(new_task) ==
    \E i \in 1..Len(tasks) :
        /\ tasks[i].t_id = new_task.t_id
        /\ tasks[i].t_deadline = new_task.t_deadline

is_duplicate(new_task) ==
    \E i \in 1..Len(tasks) :
        /\ tasks[i].t_name = new_task.t_name
        /\ tasks[i].t_deadline = new_task.t_deadline

\* task_counter is not incremented after the append
CreateTaskCounterKept(text) ==
    /\ task_counter <= MaxCounter
    /\ IF parse_error(text) # "none"
       THEN /\ response' = parse_error(text)
            /\ UNCHANGED <<tasks, task_counter, today, cyclic_printed, topo_order, in_flight>>
       ELSE IF is_duplicate(parse_task(text))
       THEN /\ response' = "duplicate_task"
            /\ UNCHANGED <<tasks, task_counter, today, cyclic_printed, topo_order, in_flight>>
       ELSE /\ Recompute(Append(tasks, parse_task(text)))
            /\ response' = "redirect"
            /\ UNCHANGED <<task_counter, today, in_flight>>

\* POST /create-task
CreateTask(text) ==
    /\ task_counter <= MaxCounter
    /\ IF parse_error(text) # "none"
       THEN /\ response' = parse_error(text)
            /\ UNCHANGED <<tasks, task_counter, today, cyclic_printed, topo_order, in_flight>>
       ELSE IF is_duplicate(parse_task(text))
       THEN /\ response' = "duplicate_task"
            /\ UNCHANGED <<tasks, task_counter, today, cyclic_printed, topo_order, in_flight>>
       ELSE /\ Recompute(Append(tasks, parse_task(text)))
            /\ task_counter' = task_counter + 1
            /\ response' = "redirect"
            /\ UNCHANGED <<today, in_flight>>

\* the test of the id is missing: every task is marked done
CompleteTaskAll(t_id) ==
    /\ tasks' = [i \in 1..Len(tasks) |-> [tasks[i] EXCEPT !.t_status = "done"]]
    /\ response' = "redirect"
    /\ UNCHANGED <<task_counter, today, cyclic_printed, topo_order, in_flight>>

\* POST /complete-task
CompleteTask(t_id) ==
    /\ tasks' = [i \in 1..Len(tasks) |->
                    IF tasks[i].t_id = t_id
                    THEN [tasks[i] EXCEPT !.t_status = "done"]
                    ELSE tasks[i]]
    /\ response' = "redirect"
    /\ UNCHANGED <<task_counter, today, cyclic_printed, topo_order, in_flight>>

\* the task is removed and the schedule is not rebuilt
DeleteTaskNoRecompute(t_id) ==
    /\ tasks' = SelectSeq(tasks, LAMBDA t : t.t_id # t_id)
    /\ response' = "redirect"
    /\ UNCHANGED <<task_counter, today, cyclic_printed, topo_order, in_flight>>

\* POST /delete-task
DeleteTask(t_id) ==
    /\ Recompute(SelectSeq(tasks, LAMBDA t : t.t_id # t_id))
    /\ response' = "redirect"
    /\ UNCHANGED <<task_counter, today, in_flight>>

\* midnight passes: datetime.now().date() and datetime.today() move on
AdvanceDay ==
    /\ today < MaxToday
    /\ today' = today + 1
    /\ UNCHANGED <<tasks, task_counter, response, cyclic_printed, topo_order, in_flight>>

Next ==
    \/ \E text \in Texts : CreateTask(text)
    \/ \E t_id \in 1..MaxCounter : CompleteTask(t_id)
    \/ \E t_id \in 1..MaxCounter : DeleteTask(t_id)
    \/ AdvanceDay

Spec == Init /\ [][Next]_vars

\* ------------------------------------------- requests in the thread pool
\* complete_task, delete_task, home and graph_data are declared with `def`,
\* so each runs in a worker thread and the workers interleave; no lock is
\* taken anywhere.  A step below is a stretch of delete_task that reads the
\* global `tasks` once, when it starts.

\* the ids at the head of the topological order whose graph node has a task
RECURSIVE known_prefix(_, _)
known_prefix(ts, order) ==
    IF order = <<>> \/ Head(order) \notin Range(Ids(ts)) THEN <<>>
    ELSE <<Head(order)>> \o known_prefix(ts, Tail(order))

\* the second half of generate_dependencies_and_schedule() on the task list
\* ts whose dependencies were assigned earlier: G.add_edge creates a node
\* without the "task" attribute for a dependency that left the list, and
\* G.nodes[task_id]["task"] raises KeyError when the loop reaches it
build_graph_and_schedule(ts, day) ==
    LET topo == topological_sort(ts)
        known == known_prefix(ts, topo.order)
        work_start == combine(day, WorkStartHour)
        work_end == combine(day, WorkEndHour)
    IN  IF ~topo.feasible
        THEN [tasks |-> ts, cyclic |-> TRUE, topo_order |-> <<>>,
              raised |-> FALSE]
        ELSE [tasks |-> schedule_loop(ts, known, work_start, work_end),
              cyclic |-> FALSE, topo_order |-> known,
              raised |-> Len(known) < Len(topo.order)]

\* the edges of GET /graph-data: one for every entry of a t_dependencies
RECURSIVE graph_edges(_)
graph_edges(ts) ==
    IF ts = <<>> THEN <<>>
    ELSE LET t == Head(ts)
         IN  [k \in 1..Len(t.t_dependencies) |->
                 [source |-> t.t_dependencies[k], target |-> t.t_id]]
             \o graph_edges(Tail(ts))

\* the elements of GET /graph-data for the task list ts: the node of every
\* task, and the edges
graph_data(ts) == [nodes |-> Ids(ts), edges |-> graph_edges(ts)]

\* delete_task in worker w: tasks = [t for t in tasks if t.t_id != t_id]
DeleteTaskFilter(w, t_id) ==
    /\ in_flight[w] = "idle"
    /\ tasks' = SelectSeq(tasks, LAMBDA t : t.t_id # t_id)
    /\ in_flight' = [in_flight EXCEPT ![w] = "filtered"]
    /\ UNCHANGED <<task_counter, today, response, cyclic_printed, topo_order>>

\* worker w enters generate_dependencies_and_schedule and rewrites the
\* t_dependencies of every task
DeleteTaskAssign(w) ==
    /\ in_flight[w] = "filtered"
    /\ tasks' = assign_dependencies(tasks)
    /\ in_flight' = [in_flight EXCEPT ![w] = "assigned"]
    /\ UNCHANGED <<task_counter, today, response, cyclic_printed, topo_order>>

\* worker w builds the graph, writes the timestamps and answers
DeleteTaskSchedule(w) ==
    LET r == build_graph_and_schedule(tasks, today)
    IN  /\ in_flight[w] = "assigned"
        /\ tasks' = r.tasks
        /\ cyclic_printed' = (cyclic_printed \/ r.cyclic)
        /\ topo_order' = r.topo_order
        /\ response' = IF r.raised THEN "internal_server_error" ELSE "redirect"
        /\ in_flight' = [in_flight EXCEPT ![w] = "idle"]
        /\ UNCHANGED <<task_counter, today>>

\* GET /graph-data in a worker of its own
GraphData ==
    /\ response' = "elements"
    /\ UNCHANGED <<tasks, task_counter, today, cyclic_printed, topo_order,
                   in_flight>>

NextConc ==
    \/ \E text \in Texts : CreateTask(text)
    \/ \E w \in Workers : \E t_id \in 1..MaxCounter : DeleteTaskFilter(w, t_id)
    \/ \E w \in Workers : DeleteTaskAssign(w)
    \/ \E w \in Workers : DeleteTaskSchedule(w)
    \/ GraphData

SpecConc == Init /\ [][NextConc]_vars

\* ------------------------------------------------ vocabulary of the claims
WorkWindow == (WorkEndHour - WorkStartHour) * MinutesPerHour

RegistryIds == Range(Ids(tasks))

Scheduled(t) == t.t_start_time # None /\ t.t_end_time # None

StartOf(t) == strptime(t.t_start_time)

EndOf(t) == strptime(t.t_end_time)

\* minutes since 00:00 of a "%Y-%m-%d %H:%M" text
MinuteOfDay(s) == s[2] * MinutesPerHour + s[3]

\* some id handed out earlier is no longer in the registry: a delete has run
SomeTaskDeleted == \E id \in 1..(task_counter - 1) : id \notin RegistryIds

\* C1: every task starts no earlier than the end of each of its dependencies
C1_DependenciesEndFirst ==
    \A i \in 1..Len(tasks) :
        \A d \in Range(tasks[i].t_dependencies) :
            \E j \in 1..Len(tasks) :
                /\ tasks[j].t_id = d
                /\ Scheduled(tasks[j]) /\ Scheduled(tasks[i])
                /\ EndOf(tasks[j]) <= StartOf(tasks[i])

\* a task with a dependency that takes time, scheduled after a delete has run
C1_Witness ==
    /\ SomeTaskDeleted
    /\ \E i \in 1..Len(tasks) :
          /\ Len(tasks[i].t_dependencies) >= 1
          /\ Scheduled(tasks[i])
          /\ \E j \in 1..Len(tasks) :
                /\ tasks[j].t_id \in Range(tasks[i].t_dependencies)
                /\ tasks[j].t_duration > 0

\* the ids that `id` depends on, directly or through other tasks
RECURSIVE DependencyClosure(_)
DependencyClosure(S) ==
    LET more == S \cup UNION { predecessors(tasks, v) : v \in S }
    IN  IF more = S THEN S ELSE DependencyClosure(more)

OnCycle(id) == id \in DependencyClosure(predecessors(tasks, id))

\* C2: the dependency edges never form a cycle, and the cycle branch of
\* generate_dependencies_and_schedule is never taken
C2_Acyclic ==
    /\ ~cyclic_printed
    /\ \A id \in RegistryIds : ~OnCycle(id)

\* on a registry a delete has changed, a task depends (directly or not) on a
\* task of an earlier deadline that was created after it, and the cycle
\* branch was not taken
C2_Witness ==
    /\ SomeTaskDeleted
    /\ ~cyclic_printed
    /\ \E i, j \in 1..Len(tasks) :
          /\ tasks[i].t_deadline < tasks[j].t_deadline
          /\ tasks[i].t_id \in DependencyClosure({tasks[j].t_id})
          /\ tasks[i].t_id > tasks[j].t_id

\* (priority, id) of a is strictly smaller than that of b
KeyLess(a, b) ==
    \/ a.t_priority < b.t_priority
    \/ a.t_priority = b.t_priority /\ a.t_id < b.t_id

\* the deadlines of the registry that are earlier than deadline d
EarlierDeadlines(d) ==
    { tasks[k].t_deadline : k \in { k \in 1..Len(tasks) : tasks[k].t_deadline < d } }

\* u's deadline is the nearest deadline before t's that has a task
InNearestEarlierGroup(u, t) ==
    /\ u.t_deadline < t.t_deadline
    /\ \A e \in EarlierDeadlines(t.t_deadline) : e <= u.t_deadline

ExpectedDependencies(t) ==
    { tasks[k].t_id : k \in { k \in 1..Len(tasks) :
        \/ tasks[k].t_deadline = t.t_deadline /\ KeyLess(tasks[k], t)
        \/ InNearestEarlierGroup(tasks[k], t) } }

\* C3: a task depends on exactly the same-deadline tasks with a smaller
\* (priority, id) and the tasks of the nearest earlier deadline that has
\* tasks, each once and never on itself
C3_ExactDependencies ==
    \A i \in 1..Len(tasks) :
        /\ Range(tasks[i].t_dependencies) = ExpectedDependencies(tasks[i])
        /\ Len(tasks[i].t_dependencies) = Cardinality(ExpectedDependencies(tasks[i]))
        /\ tasks[i].t_id \notin Range(tasks[i].t_dependencies)

\* three deadlines in the registry: the latest task depends on the middle
\* one and not on the earliest; and a task with a same-deadline dependency
C3_Witness ==
    \/ \E i, j, k \in 1..Len(tasks) :
          /\ tasks[i].t_deadline < tasks[j].t_deadline
          /\ tasks[j].t_deadline < tasks[k].t_deadline
          /\ tasks[k].t_dependencies = <<tasks[j].t_id>>
    \/ \E i, j, k \in 1..Len(tasks) :
          /\ tasks[i].t_deadline = tasks[j].t_deadline
          /\ tasks[j].t_deadline + 2 = tasks[k].t_deadline
          /\ Range(tasks[k].t_dependencies) = {tasks[i].t_id, tasks[j].t_id}
          /\ tasks[j].t_dependencies = <<tasks[i].t_id>>

\* the scenario of C4: the registry holds exactly A, B and C, at indexes a, b, c
IsScenario(a, b, c) ==
    /\ Len(tasks) = 3 /\ {a, b, c} = 1..3
    /\ tasks[a].t_priority = 1 /\ tasks[a].t_duration = 60
    /\ tasks[b].t_priority = 2 /\ tasks[b].t_duration = 30
    /\ tasks[b].t_deadline = tasks[a].t_deadline
    /\ tasks[c].t_priority = 1 /\ tasks[c].t_duration = 60
    /\ tasks[c].t_deadline = tasks[a].t_deadline + 1

\* B depends on A, C on A and B; A 09:00-10:00 and B 10:00-10:30 on one day
ScenarioDependenciesAndFirstDay(a, b, c) ==
    /\ Range(tasks[a].t_dependencies) = {}
    /\ Range(tasks[b].t_dependencies) = {tasks[a].t_id}
    /\ Range(tasks[c].t_dependencies) = {tasks[a].t_id, tasks[b].t_id}
    /\ Scheduled(tasks[a]) /\ Scheduled(tasks[b]) /\ Scheduled(tasks[c])
    /\ tasks[a].t_start_time = <<tasks[a].t_start_time[1], 9, 0>>
    /\ tasks[a].t_end_time = <<tasks[a].t_start_time[1], 10, 0>>
    /\ tasks[b].t_start_time = <<tasks[a].t_start_time[1], 10, 0>>
    /\ tasks[b].t_end_time = <<tasks[a].t_start_time[1], 10, 30>>

\* C4 as stated: in the scenario, B depends on A, C on A and B, A runs
\* 09:00-10:00, B 10:00-10:30 and C 09:00-10:00 of the next calendar day
C4_ScenarioNextDay ==
    \A a, b, c \in 1..Len(tasks) :
        IsScenario(a, b, c) =>
            /\ ScenarioDependenciesAndFirstDay(a, b, c)
            /\ tasks[c].t_start_time = <<tasks[a].t_start_time[1] + 1, 9, 0>>
            /\ tasks[c].t_end_time = <<tasks[a].t_start_time[1] + 1, 10, 0>>

\* C4 amended: in the scenario, B depends on A, C on A and B, A runs
\* 09:00-10:00, B 10:00-10:30 and C 10:30-11:30, all on the same calendar day
C4_ScenarioSameDay ==
    \A a, b, c \in 1..Len(tasks) :
        IsScenario(a, b, c) =>
            /\ ScenarioDependenciesAndFirstDay(a, b, c)
            /\ tasks[c].t_start_time = <<tasks[a].t_start_time[1], 10, 30>>
            /\ tasks[c].t_end_time = <<tasks[a].t_start_time[1], 11, 30>>

\* the scenario's three tasks are in the registry, B created before A
C4_Witness ==
    \E a, b, c \in 1..Len(tasks) :
        /\ IsScenario(a, b, c)
        /\ tasks[b].t_id < tasks[a].t_id
        /\ Scheduled(tasks[c])

\* C5: a task of at most 480 minutes starts at or after 09:00 and ends at or
\* before 17:00 of the calendar day it starts on
C5_InsideWindow ==
    \A i \in 1..Len(tasks) :
        (tasks[i].t_duration <= WorkWindow /\ Scheduled(tasks[i])) =>
            /\ MinuteOfDay(tasks[i].t_start_time) >= WorkStartHour * MinutesPerHour
            /\ tasks[i].t_end_time[1] = tasks[i].t_start_time[1]
            /\ MinuteOfDay(tasks[i].t_end_time) <= WorkEndHour * MinutesPerHour

\* a task that takes time and fits the window, placed after two roll-overs
C5_Witness ==
    \E i, j \in 1..Len(tasks) :
        /\ tasks[i].t_duration \in 1..WorkWindow
        /\ tasks[j].t_duration \in 1..WorkWindow
        /\ Scheduled(tasks[i]) /\ Scheduled(tasks[j])
        /\ tasks[j].t_start_time[1] > tasks[i].t_start_time[1]
        /\ tasks[i].t_start_time[1] > today

\* 17:00 of the calendar day the datetime dt lies in
WorkEndOfDay(dt) == replace(dt, WorkEndHour)

\* C6: a task starts at the end of the task scheduled before it when the time
\* left until 17:00 of that day is at least its duration, and at 09:00 of the
\* next day otherwise, on every day
C6_PacksEveryDay ==
    \A n \in 1..(Len(topo_order) - 1) :
        LET prev == TaskOf(tasks, topo_order[n])
            task == TaskOf(tasks, topo_order[n + 1])
            cursor == EndOf(prev)
        IN  IF WorkEndOfDay(cursor) - cursor < task.t_duration
            THEN StartOf(task) = replace(cursor, WorkStartHour) + MinutesPerDay
            ELSE StartOf(task) = cursor

\* C7: no two tasks of the registry have overlapping [start_time, end_time)
C7_NoOverlap ==
    \A i, j \in 1..Len(tasks) :
        (i # j /\ Scheduled(tasks[i]) /\ Scheduled(tasks[j])) =>
            \/ EndOf(tasks[i]) <= StartOf(tasks[j])
            \/ EndOf(tasks[j]) <= StartOf(tasks[i])

\* two tasks that take time run back to back, and a third task neither
\* depends on the first nor is a dependency of it
C7_Witness ==
    \E i, j, k \in 1..Len(tasks) :
        /\ tasks[i].t_duration > 0 /\ tasks[j].t_duration > 0
        /\ Scheduled(tasks[i]) /\ Scheduled(tasks[j]) /\ Scheduled(tasks[k])
        /\ tasks[i].t_end_time = tasks[j].t_start_time
        /\ i # k
        /\ tasks[i].t_id \notin Range(tasks[k].t_dependencies)
        /\ tasks[k].t_id \notin Range(tasks[i].t_dependencies)

\* C8: every task of the registry has a duration of 1 to 480 minutes
C8_DurationsValidated ==
    \A i \in 1..Len(tasks) : tasks[i].t_duration \in 1..WorkWindow

\* C9: a scheduled task starts before it ends and lasts its duration
C9_TimestampsMatchDuration ==
    \A i \in 1..Len(tasks) :
        Scheduled(tasks[i]) =>
            /\ StartOf(tasks[i]) < EndOf(tasks[i])
            /\ EndOf(tasks[i]) - StartOf(tasks[i]) = tasks[i].t_duration

\* C10: every id in a task's dependencies is the id of a task of the registry
C10_DependenciesInRegistry ==
    \A i \in 1..Len(tasks) : Range(tasks[i].t_dependencies) \subseteq RegistryIds

\* a delete has removed the first task; of the two tasks left, one is done
\* and one depends on the other
C10_Witness ==
    /\ Len(tasks) = 2
    /\ 1 \notin RegistryIds
    /\ task_counter > 3
    /\ \E i, j \in 1..2 :
          /\ tasks[i].t_dependencies = <<tasks[j].t_id>>
          /\ tasks[j].t_status = "done"

\* no two tasks of the registry share an id, and every id is below the counter
IdsUniqueAndIssued ==
    /\ \A i, j \in 1..Len(tasks) : tasks[i].t_id = tasks[j].t_id => i = j
    /\ \A i \in 1..Len(tasks) : tasks[i].t_id < task_counter

\* task_counter never decreases; it moves only by one, in a step that appends
\* the task with the old counter as its id, and no other step adds a task
CounterStep ==
    /\ task_counter' >= task_counter
    /\ task_counter' # task_counter =>
          /\ task_counter' = task_counter + 1
          /\ tasks' # <<>>
          /\ tasks'[Len(tasks')].t_id = task_counter
          /\ response' = "redirect"
    /\ task_counter' = task_counter =>
          Range(Ids(tasks')) \subseteq Range(Ids(tasks))

\* C11: ids are unique in the registry at all times and an id is never
\* handed out twice: the counter only grows, and only on an accepted create
C11_UniqueIds == [](IdsUniqueAndIssued) /\ [][CounterStep]_vars

\* the last request was a rejected create, and the registry holds a task
\* whose id is above an id that a delete has freed
C11_Witness ==
    /\ response \in {"duplicate_task", "missing_date", "missing_time", "invalid_date"}
    /\ \E i \in 1..Len(tasks) :
          \E id \in 1..(tasks[i].t_id - 1) : id \notin RegistryIds

\* (deadline, priority, id) of a is lexicographically smaller than that of b
TupleLess(a, b) ==
    \/ a.t_deadline < b.t_deadline
    \/ a.t_deadline = b.t_deadline /\ KeyLess(a, b)

\* C12: the schedule follows ascending (deadline, priority, id): the task with
\* the smaller tuple ends no later than the other starts
C12_ScheduleFollowsTuple ==
    \A i, j \in 1..Len(tasks) :
        TupleLess(tasks[i], tasks[j]) =>
            /\ Scheduled(tasks[i]) /\ Scheduled(tasks[j])
            /\ EndOf(tasks[i]) <= StartOf(tasks[j])

\* two tasks that share deadline and priority run in the order of their
\* ids, and a task of the same deadline and a smaller priority number that
\* was created after both runs before them
C12_Witness ==
    \E i, j, k \in 1..Len(tasks) :
        /\ tasks[i].t_deadline = tasks[j].t_deadline
        /\ tasks[i].t_priority = tasks[j].t_priority
        /\ tasks[i].t_id < tasks[j].t_id
        /\ tasks[i].t_duration > 0
        /\ EndOf(tasks[i]) <= StartOf(tasks[j])
        /\ tasks[k].t_deadline = tasks[i].t_deadline
        /\ tasks[k].t_priority < tasks[i].t_priority
        /\ tasks[k].t_id > tasks[j].t_id
        /\ EndOf(tasks[k]) <= StartOf(tasks[i])

\* one run of the recompute on the registry, on the current date
RecomputedOnce == generate_dependencies_and_schedule(tasks, today).tasks

\* C13: a second run of the recompute on the result of a first run, on the
\* same date, changes no task's dependencies, start_time or end_time
C13_Idempotent ==
    generate_dependencies_and_schedule(RecomputedOnce, today).tasks = RecomputedOnce

\* the registry holds a schedule of an earlier date, so that the first run
\* rewrites it, and a task with two dependencies
C13_Witness ==
    /\ RecomputedOnce # tasks
    /\ \E i \in 1..Len(tasks) : Len(tasks[i].t_dependencies) >= 2

\* a worker is between the first and the last line of delete_task
InRecompute(w) == in_flight[w] # "idle"

\* no edge of the /graph-data elements starts at a task that is not a node
EdgesBetweenNodes(elements) ==
    \A k \in 1..Len(elements.edges) :
        elements.edges[k].source \in Range(elements.nodes)

\* C14: whenever a reader runs, what it reads is a task set with the
\* schedule recomputed for it, from before or after the mutation: no task
\* that was removed is still listed as a dependency, the dependencies and
\* timestamps are those of one recompute of the tasks read, and at most one
\* recompute is in progress
C14_ReadersIsolated ==
    /\ Cardinality({ w \in Workers : InRecompute(w) }) <= 1
    /\ EdgesBetweenNodes(graph_data(tasks))
    /\ tasks = RecomputedOnce

Rejections == {"missing_date", "missing_time", "invalid_date", "duplicate_task"}

\* the text names no date, no time, a past date, or the name and deadline of
\* a task of the registry
IsRejected(text) ==
    \/ ~text.has_date
    \/ ~text.has_time
    \/ text.date < today
    \/ \E i \in 1..Len(tasks) :
          tasks[i].t_name = text.name /\ tasks[i].t_deadline = text.date

NoSharedNameAndDeadline ==
    \A i, j \in 1..Len(tasks) :
        (tasks[i].t_name = tasks[j].t_name
            /\ tasks[i].t_deadline = tasks[j].t_deadline) => i = j

RejectedCreateStep ==
    \A text \in Texts :
        (IsRejected(text) /\ CreateTask(text)) =>
            /\ response' \in Rejections
            /\ UNCHANGED <<tasks, task_counter, cyclic_printed, topo_order>>

\* C15: a rejected create leaves the task list, the counter and every task's
\* fields as they were and runs no recompute, and no two tasks of the
\* registry share (name, deadline)
C15_RejectedCreate == [](NoSharedNameAndDeadline) /\ [][RejectedCreateStep]_vars

\* a create was rejected as a duplicate while the registry held a schedule
\* of an earlier date, which a recompute would have rewritten
C15_Witness ==
    /\ response = "duplicate_task"
    /\ RecomputedOnce # tasks
    /\ Len(tasks) >= 2

\* task `after` is task `before` but for its status
SameButStatus(before, after) == after = [before EXCEPT !.t_status = after.t_status]

CompleteStep ==
    \A id \in 1..MaxCounter :
        CompleteTask(id) =>
            /\ Len(tasks') = Len(tasks)
            /\ task_counter' = task_counter
            /\ \A i \in 1..Len(tasks) :
                  /\ SameButStatus(tasks[i], tasks'[i])
                  /\ tasks'[i].t_status =
                        IF tasks[i].t_id = id THEN "done" ELSE tasks[i].t_status
            /\ id \notin RegistryIds => tasks' = tasks

\* the registry with every task pending again
AllPending == [i \in 1..Len(tasks) |-> [tasks[i] EXCEPT !.t_status = "pending"]]

\* a recompute gives the tasks the dependencies and the slots it would give
\* them if none were done
StatusIsNoInput ==
    LET with == RecomputedOnce
        without == generate_dependencies_and_schedule(AllPending, today).tasks
    IN  \A i \in 1..Len(tasks) :
            /\ SameButStatus(without[i], with[i])
            /\ with[i].t_status = tasks[i].t_status

\* C16: complete-task(id) sets the status of the task with that id to done
\* and changes nothing else, and nothing at all for an unknown id; a done
\* task keeps its edges and its slot in every later recompute
C16_CompleteOnlyStatus == [](StatusIsNoInput) /\ [][CompleteStep]_vars

\* a done task that has a dependency and is itself a dependency of the
\* pending task that was created last
C16_Witness ==
    \E i, j, k \in 1..Len(tasks) :
        /\ tasks[j].t_status = "done"
        /\ tasks[i].t_id \in Range(tasks[j].t_dependencies)
        /\ tasks[j].t_id \in Range(tasks[k].t_dependencies)
        /\ tasks[k].t_status = "pending"
        /\ tasks[k].t_id = task_counter - 1
        /\ Scheduled(tasks[j])

\* C17 as stated: a task longer than the work window is never given a
\* start_time and an end_time
C17_OverlongNeverPlaced ==
    \A i \in 1..Len(tasks) :
        tasks[i].t_duration > WorkWindow => ~Scheduled(tasks[i])

\* C17 amended: a task longer than the work window is placed after a single
\* roll-over: it starts at 09:00 of the day after the day the previous task
\* ended on, and ends its duration later, past 17:00
C17_OverlongPlacedNextDay ==
    \A n \in 1..Len(topo_order) :
        LET task == TaskOf(tasks, topo_order[n])
        IN  task.t_duration > WorkWindow =>
                /\ Scheduled(task)
                /\ MinuteOfDay(task.t_start_time) = WorkStartHour * MinutesPerHour
                /\ EndOf(task) = StartOf(task) + task.t_duration
                /\ EndOf(task) > WorkEndOfDay(StartOf(task))
                /\ n > 1 =>
                      StartOf(task) =
                          replace(EndOf(TaskOf(tasks, topo_order[n - 1])),
                                  WorkStartHour) + MinutesPerDay

\* a task longer than the window is scheduled after a task that takes time
C17_Witness ==
    \E n \in 2..Len(topo_order) :
        /\ TaskOf(tasks, topo_order[n]).t_duration > WorkWindow
        /\ TaskOf(tasks, topo_order[n - 1]).t_duration > 0
        /\ Scheduled(TaskOf(tasks, topo_order[n]))

\* the tasks with no unresolved dependency once the tasks of `done` are resolved
ReadyAfter(done) ==
    { id \in RegistryIds \ done : predecessors(tasks, id) \subseteq done }

\* C18: at every step of the in-degree traversal exactly one task is ready,
\* so the graph has one topological order, that of ascending
\* (deadline, priority, id), whatever the order of the registry list
C18_SingleTopologicalOrder ==
    /\ Len(topo_order) = Len(tasks)
    /\ \A n \in 1..Len(topo_order) :
          ReadyAfter(Range(SubSeq(topo_order, 1, n - 1))) = {topo_order[n]}
    /\ \A n, m \in 1..Len(topo_order) :
          n < m => TupleLess(TaskOf(tasks, topo_order[n]),
                             TaskOf(tasks, topo_order[m]))

\* three tasks of two deadlines whose topological order is the reverse of
\* their order in the registry list
C18_Witness ==
    /\ Len(tasks) = 3
    /\ topo_order = <<tasks[3].t_id, tasks[2].t_id, tasks[1].t_id>>
    /\ tasks[1].t_deadline # tasks[3].t_deadline

\* the registry is the result of a recompute of its own tasks on date d
RecomputedOn(d) == generate_dependencies_and_schedule(tasks, d).tasks = tasks

\* C19: every task of the registry has a start_time and an end_time, and
\* they are the ones a recompute of the current task set gives
C19_AllScheduled ==
    /\ \A i \in 1..Len(tasks) : Scheduled(tasks[i])
    /\ \E d \in 0..today : RecomputedOn(d)

\* after a delete, the task created last is scheduled behind a dependency
C19_Witness ==
    /\ SomeTaskDeleted
    /\ \E i \in 1..Len(tasks) :
          /\ tasks[i].t_id = task_counter - 1
          /\ \E id \in 1..(tasks[i].t_id - 1) : id \notin RegistryIds
          /\ Len(tasks[i].t_dependencies) >= 1
          /\ Scheduled(tasks[i])

====
